---- MODULE Spec2Model ----
(***************************************************************************)
(* A model of src/note/scrape.ts: the note.com article archiver.           *)
(*                                                                         *)
(* Strings are sequences of characters; a character is a one-symbol TLA+   *)
(* string.  The three kanji of the date phrase are the symbols NEN, GATSU  *)
(* and NICHI.  A missing DOM attribute (null) and an empty one are both    *)
(* falsy for the code's || chains and are both the empty sequence here.    *)
(* A file's name and content are characters too, in the UTF-8 form Node     *)
(* gives a string; a write that is cut inside a character leaves the symbol *)
(* Torn for the bytes of that character that made it to the disk.          *)
(***************************************************************************)
EXTENDS Integers, Sequences, FiniteSets, TLC

VARIABLES
    \* the environment: command line, the site, the output directory
    args,           \* process.argv.slice(2)
    web,            \* URL -> the page the site serves for it
    anchors,        \* every article anchor of the listing page, in document order
    timeline,       \* the listing DOM over time: what it holds on arrival and after
                    \* each settle interval, as [visible, button]
    fs,             \* OUTPUT_DIR: filename -> file content
    dirExists,      \* OUTPUT_DIR is there
    \* the program
    pc,             \* position of main()
    i,              \* index of the argument loop (0-based, as in the code)
    targetUrls,
    targetQueries,
    visible,        \* number of anchors currently in the listing DOM
    tick,           \* position in the timeline: the settle intervals gone by, plus 1
    hasMore,
    articles,
    existingFiles,  \* the readdirSync snapshot
    idx,            \* position of the for-of loop over articles (1-based)
    data,           \* result of the extraction page.evaluate
    filename,
    markdown,
    \* bookkeeping of the run, for the properties
    run,            \* number of the current run of the program
    status,         \* per target of this run: its state in the per-target state machine
    prevStatus,     \* status at the end of the previous run
    prevArticles,   \* articles at the end of the previous run
    visited,        \* indices of the targets page.goto was called for, this run
    written,        \* filenames written by this run, in order
    listingVisited, \* page.goto(BASE_URL) was called in this run
    timedOut        \* the waitForSelector of the current target timed out

vars == <<args, web, anchors, timeline, fs, dirExists, pc, i, targetUrls, targetQueries,
          visible, tick, hasMore, articles, existingFiles, idx, data, filename,
          markdown, run, status, prevStatus, prevArticles, visited, written,
          listingVisited, timedOut>>

prev == <<prevStatus, prevArticles>>

env == <<args, web, anchors, timeline, dirExists>>

dom == <<visible, tick>>

----------------------------------------------------------------------------
(* Characters and string literals of the source *)

NEN == "nen"
GATSU == "gatsu"
NICHI == "nichi"
Digits == {"0", "1", "2", "3", "4", "5", "6", "7", "8", "9"}
\* the code points String.prototype.trim removes (WhiteSpace and
\* LineTerminator); those outside ASCII are the symbols "U+..."
Whitespace ==
    {" ", "\n", "\t", "\r", "\f", "U+000B", "U+00A0", "U+1680", "U+2000", "U+2001",
     "U+2002", "U+2003", "U+2004", "U+2005", "U+2006", "U+2007", "U+2008", "U+2009",
     "U+200A", "U+2028", "U+2029", "U+202F", "U+205F", "U+3000", "U+FEFF"}

\* a surrogate code unit without its partner, which a JavaScript string may
\* hold and UTF-8 has no form for; and U+FFFD, the replacement character
LoneSurrogate == "U+D800"
Replacement == "U+FFFD"

\* the characters of the model that take more than one byte in UTF-8
MultiByte ==
    (Whitespace \ {" ", "\n", "\t", "\r", "\f", "U+000B"})
        \cup {NEN, GATSU, NICHI, Replacement}

\* some, not all, of the bytes of a character of more than one byte
Torn == "torn"

\* the character class of the two replace() calls: \ / : * ? " < > |
ForbiddenChars == {"\\", "/", ":", "*", "?", "\"", "<", ">", "|"}

UrlFlag == <<"-", "-", "u", "r", "l">>
HttpPrefix == <<"h", "t", "t", "p">>
UrlTarget == <<"U", "R", "L", " ", "T", "a", "r", "g", "e", "t">>
Untitled == <<"U", "n", "t", "i", "t", "l", "e", "d">>
NoDate == <<"0", "0", "0", "0", "0", "0", "0", "0">>
MdExt == <<".", "m", "d">>

----------------------------------------------------------------------------
(* String operations of JavaScript used by the source *)

StartsWith(s, p) == Len(p) <= Len(s) /\ SubSeq(s, 1, Len(p)) = p

EndsWith(s, p) == Len(p) <= Len(s) /\ SubSeq(s, Len(s) - Len(p) + 1, Len(s)) = p

Includes(s, q) == \E k \in 0..(Len(s) - Len(q)) : SubSeq(s, k + 1, k + Len(q)) = q

RECURSIVE TrimStart(_)
TrimStart(s) ==
    IF s # <<>> /\ Head(s) \in Whitespace THEN TrimStart(Tail(s)) ELSE s

RECURSIVE TrimEnd(_)
TrimEnd(s) ==
    IF s # <<>> /\ s[Len(s)] \in Whitespace
    THEN TrimEnd(SubSeq(s, 1, Len(s) - 1))
    ELSE s

Trim(s) == TrimEnd(TrimStart(s))

\* no padding at all
PadStartNone(s) == s

\* s.padStart(2, '0')
PadStart2(s) == IF Len(s) < 2 THEN <<"0">> \o s ELSE s

\* x || y on strings: the empty string is falsy
OrElse(x, y) == IF x # <<>> THEN x ELSE y

\* the replacement without the g flag: the first forbidden character only
SafeTitleFirstOnly(title) ==
    [k \in 1..Len(title) |->
        IF title[k] \in ForbiddenChars /\ \A j \in 1..(k - 1) : title[j] \notin ForbiddenChars
        THEN "_"
        ELSE title[k]]

\* title.replace(/[\\/:*?"<>|]/g, '_')
SafeTitle(title) ==
    [k \in 1..Len(title) |-> IF title[k] \in ForbiddenChars THEN "_" ELSE title[k]]

\* `${dateStr}_${finalSafeTitle}.md`
Filename(dateStr, title) == dateStr \o <<"_">> \o SafeTitle(title) \o MdExt

\* the suffix built from the title as it is, not sanitized
TitleSuffixRaw(title) == <<"_">> \o title \o MdExt

\* `_${safeTitle}.md`, the suffix of the optimistic check
TitleSuffix(title) == <<"_">> \o SafeTitle(title) \o MdExt

----------------------------------------------------------------------------
(* Argument parsing, lines 29-37: one iteration of the for loop at index k   *)
(* (0-based).  The result is the role the iteration gives to args[k] and the *)
(* number of tokens it consumes.                                             *)

Arg(k) == args[k + 1]

IsFlagWithValue(k) == Arg(k) = UrlFlag /\ k + 1 < Len(args)

IsBareUrl(k) == StartsWith(Arg(k), HttpPrefix)

----------------------------------------------------------------------------
(* The listing page, lines 81-95.  An anchor is [href, aria, title, text].   *)

\* link.getAttribute('aria-label') || link.getAttribute('title')
\*   || link.textContent?.trim() || 'Untitled'
HintTitle(link) ==
    OrElse(link.aria, OrElse(link.title, OrElse(Trim(link.text), Untitled)))

\* the scan without the `seen` set: one ref for every anchor
ScanLinksNoSeen(links, seen) ==
    [k \in 1..Len(links) |-> [url |-> links[k].href, title |-> HintTitle(links[k])]]

\* the for loop over links with the `seen` set
RECURSIVE ScanLinks(_, _)
ScanLinks(links, seen) ==
    IF links = <<>> THEN <<>>
    ELSE LET link == Head(links)
             url == link.href
         IN IF url \in seen
            THEN ScanLinks(Tail(links), seen)
            ELSE <<[url |-> url, title |-> HintTitle(link)]>>
                     \o ScanLinks(Tail(links), seen \cup {url})

AllArticles(links) == ScanLinks(links, {})

\* the filter looking at the title alone
MatchesQueryTitleOnly(a, queries) ==
    \E n \in 1..Len(queries) : Includes(a.title, queries[n])

\* targetQueries.some(q => a.title.includes(q) || a.url.includes(q))
MatchesQuery(a, queries) ==
    \E n \in 1..Len(queries) :
        Includes(a.title, queries[n]) \/ Includes(a.url, queries[n])

\* lines 97-105
FilterArticles(all, queries) ==
    IF Len(queries) > 0
    THEN SelectSeq(all, LAMBDA a : MatchesQuery(a, queries))
    ELSE all

\* the explicit URLs taken in reverse
ExplicitArticlesReversed(urls) ==
    [n \in 1..Len(urls) |-> [url |-> urls[Len(urls) + 1 - n], title |-> UrlTarget]]

\* line 48
ExplicitArticles(urls) == [n \in 1..Len(urls) |-> [url |-> urls[n], title |-> UrlTarget]]

----------------------------------------------------------------------------
(* The article page, lines 134-154.  A page is                              *)
(*   [nav, article, evalOk, els, body]                                      *)
(* nav: page.goto resolves; article: an <article> appears within the        *)
(* timeout; evalOk: page.evaluate resolves; els: the elements in document   *)
(* order, each [tag, cls, text, html]; body: document.body.innerText.       *)
(* innerHTML is a sequence of child nodes [tag, text].                      *)

NoElement == [tag |-> "none", cls |-> "none", text |-> <<>>, html |-> <<>>]

\* 'h1.o-noteContentHeader__title, h1.m-noteHeader__title, .fn-note-title'
MatchesTitleSelector(el) ==
    \/ el.tag = "h1" /\ el.cls = "o-noteContentHeader__title"
    \/ el.tag = "h1" /\ el.cls = "m-noteHeader__title"
    \/ el.cls = "fn-note-title"

\* 'div.o-noteContentText, div.m-noteBody, .fn-note-body'
MatchesContentSelector(el) ==
    \/ el.tag = "div" /\ el.cls = "o-noteContentText"
    \/ el.tag = "div" /\ el.cls = "m-noteBody"
    \/ el.cls = "fn-note-body"

\* document.querySelector with a selector list: the first element in
\* document order that matches any selector of the list; hits are the
\* positions of the matching elements
QuerySelector(els, hits) ==
    IF hits = {} THEN NoElement
    ELSE els[CHOOSE k \in hits : \A m \in hits : k <= m]

\* document.querySelector(titleSelector)?.textContent?.trim() || 'Untitled'
InnerTitle(els) ==
    LET hits == {k \in 1..Len(els) : MatchesTitleSelector(els[k])}
    IN OrElse(Trim(QuerySelector(els, hits).text), Untitled)

\* document.querySelector(contentSelector)?.innerHTML || ''
ContentHtml(els) ==
    LET hits == {k \in 1..Len(els) : MatchesContentSelector(els[k])}
    IN QuerySelector(els, hits).html

At(t, k) == IF k \in 1..Len(t) THEN t[k] ELSE "eof"

\* /(\d{4})年(\d{1,2})月(\d{1,2})日/ tried at position p (1-based): the
\* three groups, or <<>> when the pattern does not match there
DateMatchAt(t, p) ==
    LET c(k) == At(t, p + k)
        yearOk == (\A k \in 0..3 : c(k) \in Digits) /\ c(4) = NEN
        mLen == IF c(5) \in Digits /\ c(6) \in Digits /\ c(7) = GATSU THEN 2
                ELSE IF c(5) \in Digits /\ c(6) = GATSU THEN 1
                ELSE 0
        d == 6 + mLen
        dLen == IF c(d) \in Digits /\ c(d + 1) \in Digits /\ c(d + 2) = NICHI THEN 2
                ELSE IF c(d) \in Digits /\ c(d + 1) = NICHI THEN 1
                ELSE 0
    IN IF yearOk /\ mLen > 0 /\ dLen > 0
       THEN <<SubSeq(t, p, p + 3),
              SubSeq(t, p + 5, p + 4 + mLen),
              SubSeq(t, p + d, p + d + dLen - 1)>>
       ELSE <<>>

\* bodyText.match(...): the leftmost match; lines 142-148
DateStr(bodyText) ==
    LET hits == {p \in 1..Len(bodyText) : DateMatchAt(bodyText, p) # <<>>}
    IN IF hits = {} THEN NoDate
       ELSE LET m == DateMatchAt(bodyText, CHOOSE p \in hits : \A q \in hits : p <= q)
            IN m[1] \o PadStart2(m[2]) \o PadStart2(m[3])

\* the object returned by the page.evaluate of lines 134-154
Extract(page) ==
    [title |-> InnerTitle(page.els),
     dateStr |-> DateStr(page.body),
     contentHtml |-> ContentHtml(page.els)]

----------------------------------------------------------------------------
(* Conversion and the file, lines 16-22 and 169-170 *)

\* turndown of one child node: script and style are removed by the rule
\* 'remove-scripts', a paragraph becomes its text
TurndownNode(node) == IF node.tag \in {"script", "style"} THEN <<>> ELSE node.text

\* turndownService.turndown(html): the nodes' texts, blank-line separated
RECURSIVE JoinBlocks(_)
JoinBlocks(blocks) ==
    IF blocks = <<>> THEN <<>>
    ELSE IF Len(blocks) = 1 THEN Head(blocks)
    ELSE Head(blocks) \o <<"\n", "\n">> \o JoinBlocks(Tail(blocks))

Turndown(html) ==
    LET texts == [n \in 1..Len(html) |-> TurndownNode(html[n])]
    IN JoinBlocks(SelectSeq(texts, LAMBDA t : t # <<>>))

\* a conversion that also rejects empty input
TurndownThrowsOnEmpty(html) ==
    html = <<>> \/ \E n \in 1..Len(html) : html[n].tag = "unconvertible"

\* the conversion is a function of its input, an error of it included: it
\* throws on a node it cannot convert
TurndownThrows(html) == \E n \in 1..Len(html) : html[n].tag = "unconvertible"

\* `# ${data.title}\n\n${markdown}`
FileContent(title, md) == <<"#", " ">> \o title \o <<"\n", "\n">> \o md

\* a string as Node hands it to the file system, in UTF-8: a surrogate
\* without its partner goes out as U+FFFD
Utf8(s) == [k \in 1..Len(s) |-> IF s[k] = LoneSurrogate THEN Replacement ELSE s[k]]

\* the existence check made on the bare filename, which is looked up in
\* the working directory and found in no case
ExistsSyncInCwd(name) == name \in {}

\* the existence check made on the readdirSync snapshot
ExistsInSnapshot(name) == name \in existingFiles

\* fs.existsSync(filepath): the directory as it is now
ExistsSync(name) == Utf8(name) \in DOMAIN fs

\* the check that takes a file for the title's only when the whole name
\* after the eight digits of the date is the title's
IsExistsWholeName(title) ==
    \E f \in existingFiles :
        Len(f) = 8 + Len(TitleSuffix(title)) /\ EndsWith(f, TitleSuffix(title))

\* existingFiles.some(f => f.endsWith(`_${safeTitle}.md`))
IsExists(title) == \E f \in existingFiles : EndsWith(f, TitleSuffix(title))

\* the skip check without the test for the sentinel
SkipByTitleNoSentinel(title) == IsExists(title)

\* the condition of the `continue` of lines 119-125
SkipByTitle(title) == title # UrlTarget /\ IsExists(title)

----------------------------------------------------------------------------
(* Bounds and the inputs the model draws from *)

MaxArgs == 3
MaxAnchors == 3
MaxRuns == 2

RECURSIVE SeqsUpTo(_, _)
SeqsUpTo(S, n) ==
    IF n = 0 THEN {<<>>}
    ELSE LET shorter == SeqsUpTo(S, n - 1)
         IN shorter \cup {Append(q, x) : q \in {r \in shorter : Len(r) = n - 1}, x \in S}

\* 'https://note.com/kuromoka/n/', which the href of every article anchor
\* starts with (line 82)
NotePrefix ==
    <<"h", "t", "t", "p", "s", ":", "/", "/", "n", "o", "t", "e", ".", "c", "o", "m",
      "/", "k", "u", "r", "o", "m", "o", "k", "a", "/", "n", "/">>

\* article URLs
U1 == NotePrefix \o <<"n", "1">>
U2 == NotePrefix \o <<"n", "2">>
U3 == NotePrefix \o <<"n", "3">>
Urls == {U1, U2, U3}

Tokens == {UrlFlag, U1, U2, <<"A">>, <<"h", "t", "t">>}

El(tag, cls, text, html) == [tag |-> tag, cls |-> cls, text |-> text, html |-> html]
Node(tag, text) == [tag |-> tag, text |-> text]
Page(nav, article, evalOk, els, body) ==
    [nav |-> nav, article |-> article, evalOk |-> evalOk, els |-> els, body |-> body]

\* title "A" by the first selector, dated 2023-05-03, one paragraph
PgA ==
    Page(TRUE, TRUE, TRUE,
         <<El("h1", "o-noteContentHeader__title", <<"A">>, <<>>),
           El("div", "o-noteContentText", <<>>, <<Node("p", <<"x">>)>>)>>,
         <<"2", "0", "2", "3", NEN, "5", GATSU, "3", NICHI>>)

\* title "A" between a no-break space and a form feed, by the third
\* selector, ahead of a heading "Z" of the first selector; dated 2024-10-12,
\* no <article>, a script before the paragraph
PgA2 ==
    Page(TRUE, FALSE, TRUE,
         <<El("span", "fn-note-title", <<"U+00A0", "A", "\f">>, <<>>),
           El("h1", "o-noteContentHeader__title", <<"Z">>, <<>>),
           El("div", "m-noteBody", <<>>,
              <<Node("script", <<"s">>), Node("p", <<"y">>), Node("p", <<"z">>)>>)>>,
         <<"x", "2", "0", "2", "4", NEN, "1", "0", GATSU, "1", "2", NICHI>>)

\* title "a/B", no date phrase, no content container
PgB ==
    Page(TRUE, TRUE, TRUE,
         <<El("h1", "m-noteHeader__title", <<"a", "/", "B">>, <<>>)>>,
         <<"a", "/", "B">>)

\* page.goto rejects (timeout, network error)
PgNavFail == Page(FALSE, FALSE, FALSE, <<>>, <<>>)

\* page.evaluate rejects (no document.body, context destroyed)
PgEvalFail == Page(TRUE, FALSE, FALSE, <<>>, <<>>)

\* title "C", no date phrase, content the conversion throws on
PgBad ==
    Page(TRUE, TRUE, TRUE,
         <<El("div", "fn-note-body", <<>>, <<Node("unconvertible", <<"c">>)>>),
           El("h1", "o-noteContentHeader__title", <<"C">>, <<>>)>>,
         <<>>)

Pages == {PgA, PgA2, PgB, PgBad, PgNavFail, PgEvalFail}

DefaultWeb == [u \in Urls |-> IF u = U1 THEN PgA ELSE IF u = U2 THEN PgB ELSE PgA2]

\* the pages that can be saved: they load, yield a record and convert
Savable == {PgA, PgA2, PgB}

\* a site whose second URL alone can be saved
ListingWeb ==
    [u \in Urls |-> IF u = U1 THEN PgNavFail ELSE IF u = U2 THEN PgB ELSE PgEvalFail]

\* a site that is down
DeadWeb == [u \in Urls |-> PgNavFail]

\* the sites that serve at most one page that can be saved, at any number
\* of URLs
Sites ==
    {w \in [Urls -> Pages] : Cardinality({w[u] : u \in Urls} \cap Savable) <= 1}

Anchor(href, aria, title, text) ==
    [href |-> href, aria |-> aria, title |-> title, text |-> text]

AnchorSet ==
    {Anchor(U1, <<"A">>, <<"t">>, <<"x">>),
     Anchor(U2, <<>>, <<>>, <<"\r", "B", "U+3000">>),
     Anchor(U1, <<>>, <<"a", "/", "B">>, <<>>),
     Anchor(U3, <<>>, <<>>, <<" ">>)}

DefaultListing ==
    <<Anchor(U1, <<"A">>, <<"t">>, <<"x">>),
      Anchor(U2, <<>>, <<>>, <<"\r", "B", "U+3000">>),
      Anchor(U1, <<>>, <<"a", "/", "B">>, <<>>),
      Anchor(U3, <<>>, <<>>, <<" ">>)>>

Old == <<"o", "l", "d">>

\* files a directory may hold before the first run
FileA == <<"2", "0", "2", "3", "0", "5", "0", "3", "_", "A", ".", "m", "d">>
FileOldA == <<"2", "0", "2", "0", "0", "1", "0", "1", "_", "A", ".", "m", "d">>
FileB == <<"0", "0", "0", "0", "0", "0", "0", "0", "_", "a", "_", "B", ".", "m", "d">>
FileUntitled ==
    <<"1", "9", "9", "9", "0", "1", "0", "1", "_",
      "U", "n", "t", "i", "t", "l", "e", "d", ".", "m", "d">>
FileUrlTarget ==
    <<"2", "0", "2", "3", "0", "5", "0", "3", "_",
      "U", "R", "L", " ", "T", "a", "r", "g", "e", "t", ".", "m", "d">>

Dir(names) == [n \in names |-> Old]

Dirs ==
    {Dir({}), Dir({FileA}), Dir({FileOldA}), Dir({FileB}),
     Dir({FileUrlTarget, FileA}), Dir({FileOldA, FileB, FileUntitled})}

\* page texts around one date phrase: what stands before it, the year,
\* month and day of one to three digits or none, and a second, well-formed
\* phrase after it; and a phrase of well-formed numbers with another year
\* marker or no day marker
Prefixes == {<<>>, <<"1">>, <<"x", " ">>}
YearParts == {<<"2", "0", "2", "3">>, <<"0", "2", "3">>, <<"2", "0", "x", "3">>}
YearMarks == {<<NEN>>, <<"-">>}
MonthParts == {<<"5">>, <<"1", "2">>, <<"1", "2", "3">>, <<>>}
DayParts == {<<"3">>, <<"3", "1">>, <<>>}
DayMarks == {<<NICHI>>, <<>>}
Suffixes == {<<>>, <<"1", "9", "9", "9", NEN, "1", GATSU, "1", NICHI>>}

Texts ==
    {pre \o y \o <<NEN>> \o m \o <<GATSU>> \o d \o <<NICHI>> \o suf :
        pre \in Prefixes, y \in YearParts, m \in MonthParts, d \in DayParts,
        suf \in Suffixes}
    \cup
    {<<"2", "0", "2", "3">> \o ym \o <<"5", GATSU, "3">> \o dm \o suf :
        ym \in YearMarks, dm \in DayMarks, suf \in Suffixes}

\* a page that differs from PgA by its text alone
PgText(t) ==
    Page(TRUE, TRUE, TRUE,
         <<El("h1", "o-noteContentHeader__title", <<"A">>, <<>>),
           El("div", "o-noteContentText", <<>>, <<Node("p", <<"x">>)>>)>>,
         t)

\* titles over the characters the sanitization replaces and two it keeps
MaxTitle == 2
TitleChars == ForbiddenChars \cup {"a", "_"}
Titles == SeqsUpTo(TitleChars, MaxTitle)

\* titles with a surrogate without its partner and with a character of
\* three bytes
OddTitles == {<<"a", LoneSurrogate>>, <<NEN, "a">>}

\* a page of title t, with no date phrase and no content container
PgTitle(t) ==
    Page(TRUE, TRUE, TRUE, <<El("h1", "m-noteHeader__title", t, <<>>)>>, <<>>)

\* the listing DOM at one time: n anchors, and a button with the trigger
\* text or none
Shot(n, b) == [visible |-> n, button |-> b]

\* a listing that shows half of its anchors and the button, and after one
\* click and settle all of them and no button
PromptTimeline(links) ==
    <<Shot(Len(links) \div 2, Len(links) > 0), Shot(Len(links), FALSE)>>

\* a listing that shows all anchors and never takes the button away
StickyTimeline(links) == <<Shot(Len(links), TRUE)>>

\* every course of a listing of n anchors over up to MaxTicks times
MaxTicks == 3
Timelines(n) ==
    SeqsUpTo({Shot(v, b) : v \in 0..n, b \in BOOLEAN}, MaxTicks) \ {<<>>}

ExplicitArgs == {<<U1, U2, U3>>, <<UrlFlag, U2, U2>>, <<U3, <<"A">>, U1>>}
\* no query term; a term in a hint title alone; a term in every URL; a term
\* in one URL alone with a term in a hint title; a term with a last --url
QueryArgs ==
    {<<>>, <<<<"A">>>>, <<<<"a">>>>, <<<<"2">>, <<"A">>>>, <<<<"B">>, UrlFlag>>}

----------------------------------------------------------------------------
(* The state after construction *)

NoData == [title |-> <<>>, dateStr |-> <<>>, contentHtml |-> <<>>]

Terminal == {"SKIPPED_BY_TITLE", "SKIPPED_BY_FILENAME", "CONVERTED_AND_SAVED", "FAILED"}
States == {"PENDING", "VISITING", "EXTRACTED"} \cup Terminal

\* the program's variables as the script starts
Start ==
    /\ pc = "start"
    /\ i = 0
    /\ targetUrls = <<>>
    /\ targetQueries = <<>>
    /\ visible = 0
    /\ tick = 0
    /\ hasMore = FALSE
    /\ articles = <<>>
    /\ existingFiles = {}
    /\ idx = 1
    /\ data = NoData
    /\ filename = <<>>
    /\ markdown = <<>>
    /\ status = <<>>
    /\ visited = {}
    /\ written = <<>>
    /\ listingVisited = FALSE
    /\ timedOut = FALSE

\* any command line, against a site that is down and an empty directory
InitArgs ==
    /\ args \in SeqsUpTo(Tokens, MaxArgs)
    /\ web = DeadWeb
    /\ anchors = DefaultListing
    /\ timeline = PromptTimeline(anchors)
    /\ fs = Dir({})

\* explicit targets, on any site that serves one page that can be saved or
\* none, with a directory that is empty or holds files
InitExplicit ==
    /\ args \in ExplicitArgs
    /\ web \in Sites
    /\ anchors = DefaultListing
    /\ timeline = PromptTimeline(anchors)
    /\ fs \in {Dir({}), Dir({FileUrlTarget, FileA})}

\* discovery on any such site, with any of the directories
InitDiscover ==
    /\ args = <<>>
    /\ web \in Sites
    /\ anchors = DefaultListing
    /\ timeline = PromptTimeline(anchors)
    /\ fs \in Dirs

\* the default site, of three pages that can be saved, into an empty
\* directory: discovered through the default listing or through its last
\* and first anchor, and as explicit targets
InitDefault ==
    /\ web = DefaultWeb
    /\ \/ /\ args = <<>>
          /\ anchors \in {DefaultListing, <<DefaultListing[4], DefaultListing[1]>>}
       \/ /\ args = <<U3, <<"A">>, U1>>
          /\ anchors = DefaultListing
    /\ timeline = PromptTimeline(anchors)
    /\ fs = Dir({})

\* any listing, with and without query terms
InitListing ==
    /\ args \in QueryArgs
    /\ web = ListingWeb
    /\ anchors \in SeqsUpTo(AnchorSet, MaxAnchors)
    /\ timeline \in {PromptTimeline(anchors), StickyTimeline(anchors)}
    /\ fs \in {Dir({}), Dir({FileOldA, FileB})}

\* any page text and any title, discovered through a listing of one anchor
\* that carries the title
InitRecord ==
    /\ args = <<>>
    /\ \/ \E t \in Texts :
             /\ web = [u \in Urls |-> PgText(t)]
             /\ anchors = <<Anchor(U1, <<"A">>, <<>>, <<>>)>>
       \/ \E t \in Titles \cup OddTitles :
             /\ web = [u \in Urls |-> PgTitle(t)]
             /\ anchors = <<Anchor(U1, t, <<>>, <<>>)>>
    /\ timeline = PromptTimeline(anchors)
    /\ fs = Dir({})

\* any course of a listing of two anchors: anchors that come late or not at
\* all, a button that goes before they come, stays, or never is there
InitCrawl ==
    /\ args = <<>>
    /\ web = DeadWeb
    /\ anchors = <<Anchor(U1, <<"A">>, <<"t">>, <<"x">>),
                   Anchor(U2, <<>>, <<>>, <<"\r", "B", "U+3000">>)>>
    /\ timeline \in Timelines(2)
    /\ fs = Dir({})

Init ==
    /\ InitArgs \/ InitExplicit \/ InitDiscover \/ InitDefault \/ InitListing
       \/ InitRecord \/ InitCrawl
    /\ dirExists \in (IF DOMAIN fs = {} THEN BOOLEAN ELSE {TRUE})
    /\ run = 1
    /\ prevStatus = <<>>
    /\ prevArticles = <<>>
    /\ Start

----------------------------------------------------------------------------
(* main(), lines 24-181 *)

\* an error of the setup that is swallowed, the run going on to the loop
AbortSwallowed == pc' = "loop"

\* an error that leaves main(): main().catch(console.error), line 184
Abort == pc' = "aborted"

\* an error at the top level of the script, which no handler takes: the
\* process ends before main() is called
Crash == pc' = "crashed"

\* lines 12-14: the output directory is made when it is not there;
\* fs.mkdirSync may throw
MakeDir ==
    /\ pc = "start"
    /\ \/ /\ dirExists
          /\ pc' = "parse"
          /\ UNCHANGED dirExists
       \/ /\ ~dirExists
          /\ dirExists' = TRUE
          /\ pc' = "parse"
       \/ /\ ~dirExists
          /\ Crash
          /\ UNCHANGED dirExists
    /\ UNCHANGED <<args, web, anchors, timeline, fs, i, targetUrls, targetQueries,
                   dom, hasMore, articles, existingFiles, idx, data, filename,
                   markdown, run, status, prev, visited, written, listingVisited,
                   timedOut>>

\* lines 29-37: one iteration of the argument loop
ParseArg ==
    /\ pc = "parse"
    /\ i < Len(args)
    /\ \/ /\ IsFlagWithValue(i)
          /\ targetUrls' = Append(targetUrls, Arg(i + 1))
          /\ i' = i + 2
          /\ UNCHANGED targetQueries
       \/ /\ ~IsFlagWithValue(i)
          /\ IsBareUrl(i)
          /\ targetUrls' = Append(targetUrls, Arg(i))
          /\ i' = i + 1
          /\ UNCHANGED targetQueries
       \/ /\ ~IsFlagWithValue(i)
          /\ ~IsBareUrl(i)
          /\ targetQueries' = Append(targetQueries, Arg(i))
          /\ i' = i + 1
          /\ UNCHANGED targetUrls
    /\ UNCHANGED <<env, fs, pc, dom, hasMore, articles, existingFiles, idx,
                   data, filename, markdown, run, status, prev, visited,
                   written, listingVisited, timedOut>>

\* lines 39-42: puppeteer.launch and browser.newPage, which may reject
Launch ==
    /\ pc = "parse"
    /\ i >= Len(args)
    /\ \/ pc' = "resolve"
       \/ Abort
    /\ UNCHANGED <<env, fs, i, targetUrls, targetQueries, dom, hasMore,
                   articles, existingFiles, idx, data, filename, markdown, run,
                   status, prev, visited, written, listingVisited, timedOut>>

\* lines 46-48: explicit URLs become the working sequence
ResolveExplicit ==
    /\ pc = "resolve"
    /\ Len(targetUrls) > 0
    /\ articles' = ExplicitArticles(targetUrls)
    /\ status' = [n \in 1..Len(targetUrls) |-> "PENDING"]
    /\ pc' = "readdir"
    /\ UNCHANGED <<env, fs, i, targetUrls, targetQueries, dom, hasMore,
                   existingFiles, idx, data, filename, markdown, run, prev,
                   visited, written, listingVisited, timedOut>>

\* lines 49-55: page.goto(BASE_URL), which may reject; the listing shows what
\* it holds on arrival
GotoListing ==
    /\ pc = "resolve"
    /\ Len(targetUrls) = 0
    /\ listingVisited' = TRUE
    /\ \/ /\ tick' = 1
          /\ visible' = timeline[1].visible
          /\ hasMore' = TRUE
          /\ pc' = "find"
       \/ /\ Abort
          /\ UNCHANGED <<dom, hasMore>>
    /\ UNCHANGED <<env, fs, i, targetUrls, targetQueries, articles, existingFiles,
                   idx, data, filename, markdown, run, status, prev, visited,
                   written, timedOut>>

\* a search that gives up once every anchor is shown
ButtonFoundWhileMore == visible < Len(anchors)

\* buttons.find(b => b.textContent?.includes(...)): a button with the trigger
\* text is in the document now
ButtonFound == timeline[tick].button

\* lines 56-67 and 75-77: the loop test and the first page.evaluate
FindButton ==
    /\ pc = "find"
    /\ hasMore
    /\ \/ /\ ButtonFound
          /\ pc' = "click"
          /\ UNCHANGED hasMore
       \/ /\ ~ButtonFound
          /\ hasMore' = FALSE
          /\ pc' = "scan"
       \/ /\ Abort
          /\ UNCHANGED hasMore
    /\ UNCHANGED <<env, fs, i, targetUrls, targetQueries, dom, articles,
                   existingFiles, idx, data, filename, markdown, run, status,
                   prev, visited, written, listingVisited, timedOut>>

\* lines 68-73: the click is dispatched; what it loads comes with time
ClickButton ==
    /\ pc = "click"
    /\ \/ pc' = "settle"
       \/ Abort
    /\ UNCHANGED <<env, fs, i, targetUrls, targetQueries, dom, hasMore, articles,
                   existingFiles, idx, data, filename, markdown, run, status,
                   prev, visited, written, listingVisited, timedOut>>

\* line 74: the settle interval, over which the listing moves on to what it
\* holds next; it stays as it is once its course is over
Settle ==
    /\ pc = "settle"
    /\ tick' = IF tick < Len(timeline) THEN tick + 1 ELSE tick
    /\ visible' = timeline[tick'].visible
    /\ pc' = "find"
    /\ UNCHANGED <<env, fs, i, targetUrls, targetQueries, hasMore,
                   articles, existingFiles, idx, data, filename, markdown, run,
                   status, prev, visited, written, listingVisited, timedOut>>

\* lines 81-105: the link scan and the query filter
ScanAndFilter ==
    /\ pc = "scan"
    /\ \/ /\ articles' = FilterArticles(AllArticles(SubSeq(anchors, 1, visible)),
                                        targetQueries)
          /\ status' = [n \in 1..Len(articles') |-> "PENDING"]
          /\ pc' = "readdir"
       \/ /\ Abort
          /\ UNCHANGED <<articles, status>>
    /\ UNCHANGED <<env, fs, i, targetUrls, targetQueries, dom, hasMore,
                   existingFiles, idx, data, filename, markdown, run, prev,
                   visited, written, listingVisited, timedOut>>

\* line 110: fs.readdirSync(OUTPUT_DIR), which may throw
ReadDir ==
    /\ pc = "readdir"
    /\ \/ /\ existingFiles' = DOMAIN fs
          /\ pc' = "loop"
       \/ /\ Abort
          /\ UNCHANGED existingFiles
    /\ UNCHANGED <<env, fs, i, targetUrls, targetQueries, dom, hasMore,
                   articles, idx, data, filename, markdown, run, status,
                   prev, visited, written, listingVisited, timedOut>>

\* the end of a target that does not move the loop on
FinishStay(s) ==
    /\ status' = [status EXCEPT ![idx] = s]
    /\ idx' = idx
    /\ pc' = "loop"
    /\ data' = NoData
    /\ filename' = <<>>
    /\ markdown' = <<>>
    /\ timedOut' = FALSE

\* the current target ends in state s and the loop goes on to the next
Finish(s) ==
    /\ status' = [status EXCEPT ![idx] = s]
    /\ idx' = idx + 1
    /\ pc' = "loop"
    /\ data' = NoData
    /\ filename' = <<>>
    /\ markdown' = <<>>
    /\ timedOut' = FALSE

\* lines 173-175: the catch of the per-target try
Catch == Finish("FAILED")

\* lines 113-128: the optimistic skip check
NextArticle ==
    /\ pc = "loop"
    /\ idx <= Len(articles)
    /\ \/ /\ SkipByTitle(articles[idx].title)
          /\ Finish("SKIPPED_BY_TITLE")
       \/ /\ ~SkipByTitle(articles[idx].title)
          /\ status' = [status EXCEPT ![idx] = "VISITING"]
          /\ pc' = "goto"
          /\ UNCHANGED <<idx, data, filename, markdown, timedOut>>
    /\ UNCHANGED <<env, fs, i, targetUrls, targetQueries, dom, hasMore,
                   articles, existingFiles, run, prev, visited, written,
                   listingVisited>>

\* what the site serves for a URL; page.goto rejects for a string that is not
\* the URL of a page
PageAt(url) == IF url \in DOMAIN web THEN web[url] ELSE PgNavFail

CurrentPage == PageAt(articles[idx].url)

\* line 129: page.goto(url)
Goto ==
    /\ pc = "goto"
    /\ visited' = visited \cup {idx}
    /\ \/ /\ CurrentPage.nav
          /\ pc' = "wait"
          /\ UNCHANGED <<idx, status, data, filename, markdown, timedOut>>
       \/ /\ ~CurrentPage.nav
          /\ Catch
    /\ UNCHANGED <<env, fs, i, targetUrls, targetQueries, dom, hasMore,
                   articles, existingFiles, run, prev, written,
                   listingVisited>>

\* a wait whose timeout is left to the catch of the try block
WaitForSelectorRaises ==
    /\ pc = "wait"
    /\ \/ /\ CurrentPage.article
          /\ pc' = "evaluate"
          /\ UNCHANGED <<idx, status, data, filename, markdown, timedOut>>
       \/ /\ ~CurrentPage.article
          /\ Catch
    /\ UNCHANGED <<env, fs, i, targetUrls, targetQueries, dom, hasMore,
                   articles, existingFiles, run, prev, visited, written,
                   listingVisited>>

\* line 132: waitForSelector('article'), whose timeout is caught in place
WaitForSelector ==
    /\ pc = "wait"
    /\ timedOut' = ~CurrentPage.article
    /\ pc' = "evaluate"
    /\ UNCHANGED <<env, fs, i, targetUrls, targetQueries, dom, hasMore,
                   articles, existingFiles, idx, data, filename, markdown, run,
                   status, prev, visited, written, listingVisited>>

\* lines 134-158: the extraction
Evaluate ==
    /\ pc = "evaluate"
    /\ \/ /\ CurrentPage.evalOk
          /\ data' = Extract(CurrentPage)
          /\ status' = [status EXCEPT ![idx] = "EXTRACTED"]
          /\ pc' = "exists"
          /\ UNCHANGED <<idx, filename, markdown, timedOut>>
       \/ /\ ~CurrentPage.evalOk
          /\ Catch
    /\ UNCHANGED <<env, fs, i, targetUrls, targetQueries, dom, hasMore,
                   articles, existingFiles, run, prev, visited, written,
                   listingVisited>>

\* lines 160-167: the filename and the exact-filename check
CheckExists ==
    /\ pc = "exists"
    /\ LET name == Filename(data.dateStr, data.title)
       IN \/ /\ ExistsSync(name)
             /\ Finish("SKIPPED_BY_FILENAME")
          \/ /\ ~ExistsSync(name)
             /\ filename' = name
             /\ pc' = "convert"
             /\ UNCHANGED <<idx, status, data, markdown, timedOut>>
    /\ UNCHANGED <<env, fs, i, targetUrls, targetQueries, dom, hasMore,
                   articles, existingFiles, run, prev, visited, written,
                   listingVisited>>

\* line 169: the conversion, which may throw
Convert ==
    /\ pc = "convert"
    /\ \/ /\ ~TurndownThrows(data.contentHtml)
          /\ markdown' = Turndown(data.contentHtml)
          /\ pc' = "write"
          /\ UNCHANGED <<idx, status, data, filename, timedOut>>
       \/ /\ TurndownThrows(data.contentHtml)
          /\ Catch
    /\ UNCHANGED <<env, fs, i, targetUrls, targetQueries, dom, hasMore,
                   articles, existingFiles, run, prev, visited, written,
                   listingVisited>>

\* the directory with the file of that name holding these bytes
FileAt(name, bytes) ==
    [n \in DOMAIN fs \cup {Utf8(name)} |-> IF n = Utf8(name) THEN bytes ELSE fs[n]]

\* fs.writeFileSync(filepath, fileContent): creates or replaces the file,
\* name and content in UTF-8
WriteFileSync(name, content) == FileAt(name, Utf8(content))

\* what a writeFileSync that throws may leave at the name: no file (the
\* open failed), or the file it created, holding the content up to the
\* place at which it failed: nothing of it, any start of it (a full disk, a
\* file size limit), a start that ends inside a character of more than
\* one byte, or all of it (the close failed)
FailedWrites(name, content) ==
    LET bytes == Utf8(content)
    IN {fs}
       \cup {FileAt(name, SubSeq(bytes, 1, k)) : k \in 0..Len(bytes)}
       \cup {FileAt(name, Append(SubSeq(bytes, 1, k), Torn)) :
                k \in {j \in 0..(Len(bytes) - 1) : bytes[j + 1] \in MultiByte}}

\* lines 170-172: the write, which may throw
WriteFile ==
    /\ pc = "write"
    /\ \/ /\ fs' = WriteFileSync(filename, FileContent(data.title, markdown))
          /\ written' = Append(written, filename)
          /\ Finish("CONVERTED_AND_SAVED")
       \/ /\ fs' \in FailedWrites(filename, FileContent(data.title, markdown))
          /\ Catch
          /\ UNCHANGED written
    /\ UNCHANGED <<env, i, targetUrls, targetQueries, dom, hasMore, articles,
                   existingFiles, run, prev, visited, listingVisited>>

\* lines 179-180: browser.close() after the last target, which may reject
Close ==
    /\ pc = "loop"
    /\ idx > Len(articles)
    /\ \/ pc' = "done"
       \/ Abort
    /\ UNCHANGED <<env, fs, i, targetUrls, targetQueries, dom, hasMore,
                   articles, existingFiles, idx, data, filename, markdown, run,
                   status, prev, visited, written, listingVisited, timedOut>>

\* the program is started again after a run that ended, at line 180, by an
\* error that left main() or by an error before main(), with the same
\* command line, against the same site and the directory the last run left
Rerun ==
    /\ pc \in {"done", "aborted", "crashed"}
    /\ run < MaxRuns
    /\ run' = run + 1
    /\ prevStatus' = status
    /\ prevArticles' = articles
    /\ pc' = "start"
    /\ i' = 0
    /\ targetUrls' = <<>>
    /\ targetQueries' = <<>>
    /\ visible' = 0
    /\ tick' = 0
    /\ hasMore' = FALSE
    /\ articles' = <<>>
    /\ existingFiles' = {}
    /\ idx' = 1
    /\ status' = <<>>
    /\ visited' = {}
    /\ written' = <<>>
    /\ listingVisited' = FALSE
    /\ UNCHANGED <<env, fs, data, filename, markdown, timedOut>>

Next ==
    \/ MakeDir
    \/ ParseArg
    \/ Launch
    \/ ResolveExplicit
    \/ GotoListing
    \/ FindButton
    \/ ClickButton
    \/ Settle
    \/ ScanAndFilter
    \/ ReadDir
    \/ NextArticle
    \/ Goto
    \/ WaitForSelector
    \/ Evaluate
    \/ CheckExists
    \/ Convert
    \/ WriteFile
    \/ Close
    \/ Rerun

Spec == Init /\ [][Next]_vars

----------------------------------------------------------------------------
(* Properties *)

Skipped == {"SKIPPED_BY_TITLE", "SKIPPED_BY_FILENAME"}
SavedOrSkipped == Skipped \cup {"CONVERTED_AND_SAVED"}

\* the positions of main() inside the for-of loop body, after the skip check
InTry == {"goto", "wait", "evaluate", "exists", "convert", "write"}

\* the file of every name in the directory before a step is there, unchanged,
\* after it
FilesKept == \A f \in DOMAIN fs : f \in DOMAIN fs' /\ fs'[f] = fs[f]

NoDuplicates(q) == \A m, n \in 1..Len(q) : q[m] = q[n] => m = n

\* a string as the directory holds it, as a name or in a file: in UTF-8,
\* where U+FFFD stands for a surrogate that has no partner
Stored(s) == [k \in DOMAIN s |-> IF s[k] = "U+D800" THEN "U+FFFD" ELSE s[k]]

\* C1 as stated: run twice against the same site, the second run writes no
\* file at all.
C1_SecondRunWritesNothing == run > 1 => written = <<>>

\* C1, amended: in a run that follows a run against the same site, the
\* working sequence is the one the earlier run had, if that run came to
\* have one; every target the earlier run saved or skipped is neither
\* written nor failed and ends in SKIPPED_BY_TITLE or SKIPPED_BY_FILENAME;
\* and a file is written only for a target the earlier run left in FAILED
\* or did not take up, having been left by an error before its loop.
C1_Idempotent ==
    run > 1 =>
        /\ (pc \in InTry \cup {"loop", "done"} /\ prevArticles # <<>>) =>
              articles = prevArticles
        /\ \A n \in DOMAIN status \cap DOMAIN prevStatus :
              /\ prevStatus[n] \in SavedOrSkipped =>
                    /\ status[n] \notin {"CONVERTED_AND_SAVED", "FAILED"}
                    /\ pc = "done" => status[n] \in Skipped
              /\ status[n] = "CONVERTED_AND_SAVED" =>
                    prevStatus[n] \in {"FAILED", "PENDING"}
        /\ Len(written) = Cardinality({n \in DOMAIN status :
                                          status[n] = "CONVERTED_AND_SAVED"})

\* C1's case: a second run has ended, and skipped by title one target and
\* by filename another target that the first run had saved
C1_Witness ==
    /\ run = 2
    /\ pc = "done"
    /\ \E m, n \in DOMAIN status \cap DOMAIN prevStatus :
          /\ prevStatus[m] = "CONVERTED_AND_SAVED"
          /\ status[m] = "SKIPPED_BY_TITLE"
          /\ prevStatus[n] = "CONVERTED_AND_SAVED"
          /\ status[n] = "SKIPPED_BY_FILENAME"

\* C2 as stated: a step of a target's try block that raises ends that target
\* in FAILED and changes nothing else: no file is written for it, the
\* directory, the snapshot, the working
\* sequence and the other targets' states are as they were when the target
\* was taken up, the loop stands at the next target, and no step inside the
\* loop leaves main() by an error.
C2_FailureIsolated ==
    [][(pc \in InTry) =>
          /\ pc' # "aborted"
          /\ articles' = articles
          /\ existingFiles' = existingFiles
          /\ \A n \in DOMAIN status : n # idx => status'[n] = status[n]
          /\ fs' # fs => status'[idx] = "CONVERTED_AND_SAVED"
          /\ status'[idx] = "FAILED" =>
                /\ fs' = fs
                /\ written' = written
                /\ idx' = idx + 1
                /\ pc' = "loop"
                /\ <<data', filename', markdown'>> = <<NoData, <<>>, <<>>>>]_vars

\* C3: the write is reached only with a filename that is not in the
\* directory, no step changes or removes a file that is there, and the
\* filenames written by one run are pairwise different.
C3_NoOverwrite ==
    [][/\ FilesKept
       /\ pc' = "write" => Stored(filename') \notin DOMAIN fs'
       /\ NoDuplicates(written')]_vars

\* C3's case: two targets of one run resolve to the same title and date, the
\* first was saved and the second skipped by filename
C3_Witness ==
    \E m, n \in DOMAIN status :
        /\ m < n
        /\ PageAt(articles[m].url) = PageAt(articles[n].url)
        /\ status[m] = "CONVERTED_AND_SAVED"
        /\ status[n] = "SKIPPED_BY_FILENAME"

\* the record the site yields for target n, and the filename derived from it
RecordOf(n) == Extract(PageAt(articles[n].url))
FilenameOf(n) == Filename(RecordOf(n).dateStr, RecordOf(n).title)

\* page.goto has been called for target n
Navigated(n) == n \in visited

\* C4: once a target has been saved as D_T.md, a later discovered target of
\* the same run whose sanitized hint title is T ends in SKIPPED_BY_TITLE and
\* is never navigated to.
C4_WrittenFileRegistered ==
    \A m, n \in DOMAIN status :
        ( /\ m < n
          /\ status[m] = "CONVERTED_AND_SAVED"
          /\ articles[n].title # UrlTarget
          /\ SafeTitle(articles[n].title) = SafeTitle(RecordOf(m).title)
          /\ status[n] \in Terminal )
        => status[n] = "SKIPPED_BY_TITLE" /\ ~Navigated(n)

\* f is x_T.md for some x, T the sanitized form of title t
HasTitleSuffix(f, t) ==
    \E k \in 0..Len(f) :
        /\ Len(f) = k + 1 + Len(t) + 3
        /\ f = SubSeq(f, 1, k) \o <<"_">>
                \o [j \in 1..Len(t) |-> IF t[j] \in ForbiddenChars THEN "_" ELSE t[j]]
                \o <<".", "m", "d">>

\* C5: when explicit URLs are supplied no target is skipped by title, every
\* target that has reached a terminal state was navigated to, and a target
\* whose derived filename is in the directory at the filename check ends in
\* SKIPPED_BY_FILENAME with the directory unchanged.
C5_ExplicitOverride ==
    [][Len(targetUrls') > 0 =>
          /\ \A n \in DOMAIN status' :
                /\ status'[n] # "SKIPPED_BY_TITLE"
                /\ status'[n] \in Terminal => n \in visited'
          /\ (pc = "exists" /\ Stored(FilenameOf(idx)) \in DOMAIN fs) =>
                /\ status'[idx] = "SKIPPED_BY_FILENAME"
                /\ fs' = fs
                /\ written' = written]_vars

\* C5's case: an explicit target, with a file in the snapshot that ends in
\* "_URL Target.md", was navigated to and skipped by filename
C5_Witness ==
    /\ Len(targetUrls) > 0
    /\ \E f \in existingFiles : HasTitleSuffix(f, UrlTarget)
    /\ \E n \in DOMAIN status :
          /\ Navigated(n)
          /\ status[n] = "SKIPPED_BY_FILENAME"
          /\ FilenameOf(n) \in existingFiles

\* C6: a discovered target whose hint title is not the sentinel leaves
\* PENDING for SKIPPED_BY_TITLE exactly when a filename of the snapshot ends
\* in "_{sanitized hint title}.md"; that step leaves the directory alone and
\* the target is never navigated to; otherwise it leaves PENDING for
\* VISITING and the next step navigates to it.
C6_PreFetchSkip ==
    [][/\ (pc = "loop" /\ idx <= Len(articles) /\ articles[idx].title # UrlTarget) =>
             IF \E f \in existingFiles : HasTitleSuffix(f, articles[idx].title)
             THEN /\ status'[idx] = "SKIPPED_BY_TITLE"
                  /\ fs' = fs /\ written' = written /\ visited' = visited
                  /\ ~Navigated(idx)
                  /\ idx' = idx + 1
             ELSE /\ status'[idx] = "VISITING"
                  /\ pc' = "goto"
       /\ \A n \in DOMAIN status' :
             /\ status'[n] = "SKIPPED_BY_TITLE" => n \notin visited'
             /\ status'[n] \in (States \ {"PENDING", "VISITING", "SKIPPED_BY_TITLE"})
                   => n \in visited']_vars

\* C6's case: of two discovered targets one was skipped by title and the
\* other, with no file of its title suffix, was navigated to
C6_Witness ==
    /\ Len(targetUrls) = 0
    /\ \E m, n \in DOMAIN status :
          /\ status[m] = "SKIPPED_BY_TITLE"
          /\ \E f \in existingFiles : HasTitleSuffix(f, articles[m].title)
          /\ Navigated(n)
          /\ ~\E f \in existingFiles : HasTitleSuffix(f, articles[n].title)

\* the steps of the per-target state machine
Advance ==
    {<<"PENDING", "SKIPPED_BY_TITLE">>, <<"PENDING", "VISITING">>,
     <<"VISITING", "EXTRACTED">>, <<"VISITING", "FAILED">>,
     <<"EXTRACTED", "SKIPPED_BY_FILENAME">>, <<"EXTRACTED", "CONVERTED_AND_SAVED">>,
     <<"EXTRACTED", "FAILED">>}

\* the positions of main() at which the working sequence is fixed
Resolved == InTry \cup {"readdir", "loop", "done"}

\* C7: within a run a target's state changes only by a step of the state
\* machine, and only the state of the target the loop stands at; a target
\* is saved only from EXTRACTED, after its own navigation, with the record
\* extracted from its own page; a target has left PENDING only when every
\* earlier target is in a terminal state; and at the end of the run every
\* target of the working sequence is in a terminal state.
C7_StateMachine ==
    [][run' = run =>
          /\ \A n \in DOMAIN status :
                \/ status'[n] = status[n]
                \/ n = idx /\ <<status[n], status'[n]>> \in Advance
          /\ \A n \in DOMAIN status' :
                /\ status'[n] \in States
                /\ status'[n] # "PENDING" => \A m \in 1..(n - 1) : status'[m] \in Terminal
          /\ \A n \in DOMAIN status :
                (status'[n] = "CONVERTED_AND_SAVED" /\ status[n] # status'[n]) =>
                    /\ n \in visited
                    /\ data = RecordOf(n)
                    /\ fs'[Stored(FilenameOf(n))] =
                          Stored(FileContent(data.title, Turndown(data.contentHtml)))
          /\ pc' \in Resolved => DOMAIN status' = DOMAIN articles'
          /\ pc' = "done" => \A n \in DOMAIN articles' : status'[n] \in Terminal]_vars

\* C7's case: a run of three targets has ended with three different
\* terminal states, a saved target among them
C7_Witness ==
    /\ pc = "done"
    /\ Len(status) = 3
    /\ Cardinality({status[n] : n \in DOMAIN status}) = 3
    /\ \E n \in DOMAIN status : status[n] = "CONVERTED_AND_SAVED"
    /\ \E n \in DOMAIN status : status[n] = "SKIPPED_BY_TITLE"

\* C8: when an explicit URL has been parsed the listing page is never
\* visited and no anchor is loaded or scanned, and the working sequence is
\* the parsed URLs in their order, each with the sentinel hint title,
\* whatever the query terms are.
C8_ExplicitPrecedence ==
    /\ listingVisited => Len(targetUrls) = 0
    /\ Len(targetUrls) > 0 =>
          /\ visible = 0
          /\ pc \notin {"find", "click", "settle", "scan"}
          /\ pc \in Resolved =>
                /\ Len(articles) = Len(targetUrls)
                /\ \A n \in 1..Len(targetUrls) :
                      /\ articles[n].url = targetUrls[n]
                      /\ articles[n].title = UrlTarget

\* C8's case: two different explicit URLs and a query term, resolved
C8_Witness ==
    /\ pc \in Resolved
    /\ Len(targetUrls) = 2
    /\ targetUrls[1] # targetUrls[2]
    /\ Len(targetQueries) > 0

\* q is a substring of s
Contains(s, q) ==
    \E a \in 0..(Len(s) - Len(q)) : \A j \in 1..Len(q) : s[a + j] = q[j]

\* a ref that the query terms select
Wanted(ref) ==
    \E n \in DOMAIN targetQueries :
        Contains(ref.title, targetQueries[n]) \/ Contains(ref.url, targetQueries[n])

\* the subsequence of refs the query terms select, all of it when there is
\* no query term
RECURSIVE Kept(_)
Kept(refs) ==
    IF refs = <<>> THEN <<>>
    ELSE IF targetQueries = <<>> \/ Wanted(Head(refs))
         THEN <<Head(refs)>> \o Kept(Tail(refs))
         ELSE Kept(Tail(refs))

\* the anchors in the listing DOM when it was last looked at
Shown == [k \in 1..visible |-> anchors[k]]

\* C9: without explicit URL the working sequence is the subsequence, in
\* discovery order, of the refs discovered from the anchors the listing
\* shows at the scan whose hint title or URL contains a query term as it
\* is written; it is the whole discovered sequence when there is no query
\* term.
C9_QueryFilter ==
    (Len(targetUrls) = 0 /\ pc \in Resolved) => articles = Kept(AllArticles(Shown))

\* C9's case: a query term kept one ref by its URL alone and dropped another
C9_Witness ==
    /\ pc \in Resolved
    /\ Len(targetUrls) = 0
    /\ Len(targetQueries) > 0
    /\ Len(articles) < Len(AllArticles(Shown))
    /\ \E n \in DOMAIN articles :
          \A k \in DOMAIN targetQueries : ~Contains(articles[n].title, targetQueries[k])

\* the role the claim gives to the token at position k (1-based)
RECURSIVE ClaimedRole(_)
ClaimedRole(k) ==
    IF k > 1 /\ ClaimedRole(k - 1) = "flag" THEN "url"
    ELSE IF args[k] = UrlFlag THEN "flag"
    ELSE IF Len(args[k]) >= 4 /\ <<args[k][1], args[k][2], args[k][3], args[k][4]>> = HttpPrefix
         THEN "url"
    ELSE "query"

\* the tokens from position k on that the claim gives role r, in order
RECURSIVE TokensOfRole(_, _)
TokensOfRole(r, k) ==
    IF k > Len(args) THEN <<>>
    ELSE (IF ClaimedRole(k) = r THEN <<args[k]>> ELSE <<>>) \o TokensOfRole(r, k + 1)

\* C10: after parsing, the URLs are the tokens that follow a --url flag and
\* the bare tokens that start with "http", the query terms are the other
\* bare tokens, both in argument order, and a --url flag is in neither.
C10_EveryTokenClassified ==
    pc \notin {"start", "crashed", "parse"} =>
        /\ targetUrls = TokensOfRole("url", 1)
        /\ targetQueries = TokensOfRole("query", 1)

\* the anchors in the listing DOM that are the first of their URL, in
\* document order
FirstOfUrl == {k \in 1..visible : \A j \in 1..(k - 1) : anchors[j].href # anchors[k].href}

\* white space and line ends: tab, line feed, vertical tab, form feed,
\* carriage return, space, no-break space, the Unicode space separators,
\* line and paragraph separator, byte order mark
Blank ==
    {"\t", "\n", "U+000B", "\f", "\r", " ", "U+00A0", "U+1680", "U+2000", "U+2001",
     "U+2002", "U+2003", "U+2004", "U+2005", "U+2006", "U+2007", "U+2008", "U+2009",
     "U+200A", "U+202F", "U+205F", "U+3000", "U+2028", "U+2029", "U+FEFF"}

\* s without the white space at its two ends
Stripped(s) ==
    LET ink == {k \in DOMAIN s : s[k] \notin Blank}
    IN IF ink = {} THEN <<>>
       ELSE LET lo == CHOOSE k \in ink : \A m \in ink : k <= m
                hi == CHOOSE k \in ink : \A m \in ink : m <= k
            IN [j \in 1..(hi - lo + 1) |-> s[lo + j - 1]]

\* the hint title of an anchor: its accessible name, else its title
\* attribute, else its text without the surrounding whitespace, else
\* "Untitled"
HintOf(a) ==
    IF a.aria # <<>> THEN a.aria
    ELSE IF a.title # <<>> THEN a.title
    ELSE IF Stripped(a.text) # <<>> THEN Stripped(a.text)
    ELSE <<"U", "n", "t", "i", "t", "l", "e", "d">>

\* one ref for every distinct URL of the listing, at the place and with the
\* hint title of the first anchor of that URL
Discovered ==
    LET firsts == FirstOfUrl
        at == [n \in 1..Cardinality(firsts) |->
                  CHOOSE k \in firsts : Cardinality({j \in firsts : j <= k}) = n]
    IN [n \in DOMAIN at |->
           [url |-> anchors[at[n]].href, title |-> HintOf(anchors[at[n]])]]

\* C11: the refs discovered from the anchors the listing shows at the scan
\* hold every distinct URL once, at
\* the place of its first anchor and with the hint title of that anchor
\* (accessible name, else title attribute, else trimmed text, else
\* "Untitled"), whatever later anchors of the same URL carry; the working
\* sequence of a discovery run is what the query terms keep of these refs.
C11_LinkDedup ==
    []((Len(targetUrls) = 0 /\ pc \in Resolved) =>
          /\ articles = Kept(Discovered)
          /\ \A m, n \in DOMAIN articles : articles[m].url = articles[n].url => m = n)

\* C11's case: the listing was scanned without query terms and holds two
\* anchors of one URL with different hint titles, and another anchor after
\* them
C11_Witness ==
    /\ Len(targetUrls) = 0
    /\ targetQueries = <<>>
    /\ pc \in Resolved
    /\ \E j, k, l \in 1..visible :
          /\ j < k /\ k < l
          /\ anchors[j].href = anchors[k].href
          /\ HintOf(anchors[j]) # HintOf(anchors[k])
          /\ anchors[l].href # anchors[j].href
    /\ Len(articles) = 2

\* the selectors of the title and of the content container, in the order
\* the source lists them
TitleSelectors ==
    <<[tag |-> "h1", cls |-> "o-noteContentHeader__title"],
      [tag |-> "h1", cls |-> "m-noteHeader__title"],
      [tag |-> "any", cls |-> "fn-note-title"]>>

ContentSelectors ==
    <<[tag |-> "div", cls |-> "o-noteContentText"],
      [tag |-> "div", cls |-> "m-noteBody"],
      [tag |-> "any", cls |-> "fn-note-body"]>>

SelectorMatches(sel, el) == (sel.tag = "any" \/ el.tag = sel.tag) /\ el.cls = sel.cls

\* the elements of els that selector sel matches and whose value by field
\* is not empty, by position
NonEmptyHits(els, sel, field) ==
    {k \in DOMAIN els :
        /\ SelectorMatches(sel, els[k])
        /\ (IF field = "text" THEN Stripped(els[k].text) ELSE els[k].html) # <<>>}

\* the value of the first selector of the list, in its order, that matches
\* an element with a value that is not empty; default when there is none
RECURSIVE ByPriority(_, _, _, _)
ByPriority(els, sels, field, default) ==
    IF sels = <<>> THEN default
    ELSE LET hits == NonEmptyHits(els, Head(sels), field)
         IN IF hits = {} THEN ByPriority(els, Tail(sels), field, default)
            ELSE LET el == els[CHOOSE k \in hits : \A m \in hits : k <= m]
                 IN IF field = "text" THEN Stripped(el.text) ELSE el.html

\* C12: the extracted title is the trimmed text of the first selector, in
\* the order of the selector list, that matches an element with text, and
\* "Untitled" when none does, wherever the elements sit in the document;
\* the extracted content is found by the same rule over the content
\* selectors, and is empty when none matches.
C12_SelectorPriority ==
    pc \in {"exists", "convert", "write"} =>
        /\ data.title = ByPriority(CurrentPage.els, TitleSelectors, "text",
                                   <<"U", "n", "t", "i", "t", "l", "e", "d">>)
        /\ data.contentHtml = ByPriority(CurrentPage.els, ContentSelectors, "html", <<>>)

\* the file of a record without content: the title heading alone
HeadingOnly(title) == <<"#", " ">> \o title \o <<"\n", "\n">>

\* C13 as stated: a target whose page yields empty content markup never
\* ends in FAILED.
C13_EmptyContentNeverFailed ==
    \A n \in DOMAIN status :
        ( /\ n \in visited
          /\ PageAt(articles[n].url).nav
          /\ PageAt(articles[n].url).evalOk
          /\ RecordOf(n).contentHtml = <<>> )
        => status[n] # "FAILED"

\* a character of more than one byte in UTF-8, among those of the model
Wide(c) ==
    c \in {"nen", "gatsu", "nichi", "U+FFFD", "U+00A0", "U+1680", "U+2000", "U+2001",
           "U+2002", "U+2003", "U+2004", "U+2005", "U+2006", "U+2007", "U+2008",
           "U+2009", "U+200A", "U+202F", "U+205F", "U+3000", "U+2028", "U+2029",
           "U+FEFF"}

\* part holds the stored content whole up to some place: a start of it, a
\* start and then some bytes of its next character, or all of it
IsWrittenPartOf(part, whole) ==
    \E k \in 0..Len(whole) :
        \/ /\ Len(part) = k
           /\ \A j \in 1..k : part[j] = whole[j]
        \/ /\ k < Len(whole)
           /\ Wide(whole[k + 1])
           /\ Len(part) = k + 1
           /\ \A j \in 1..k : part[j] = whole[j]
           /\ part[k + 1] = "torn"

\* C13, amended: for a target extracted with empty content markup, a
\* filename that is not in the directory leads on to the conversion, the
\* conversion does not raise and yields empty text, and the write either
\* saves a file that holds exactly "# {title}\n\n", in UTF-8 (U+FFFD for
\* a surrogate without its partner), and ends the target in
\* CONVERTED_AND_SAVED, or raises and ends the target in FAILED, leaving
\* every other file as it was and under the filename no file or a file
\* with that content up to the place where the write failed: a start of
\* it, which may end inside a character, or all of it; no other step
\* fails such a target.
C13_DegradedContent ==
    [][(pc \in {"exists", "convert", "write"} /\ data.contentHtml = <<>>) =>
          /\ (pc = "exists" /\ Stored(FilenameOf(idx)) \notin DOMAIN fs) =>
                pc' = "convert" /\ status' = status
          /\ pc = "convert" =>
                pc' = "write" /\ markdown' = <<>> /\ status' = status
          /\ pc = "write" =>
                \/ /\ status'[idx] = "CONVERTED_AND_SAVED"
                   /\ Stored(FilenameOf(idx)) \notin DOMAIN fs
                   /\ DOMAIN fs' = DOMAIN fs \cup {Stored(FilenameOf(idx))}
                   /\ fs'[Stored(FilenameOf(idx))] = Stored(HeadingOnly(RecordOf(idx).title))
                   /\ \A f \in DOMAIN fs : fs'[f] = fs[f]
                \/ /\ status'[idx] = "FAILED"
                   /\ written' = written
                   /\ \A f \in DOMAIN fs : f \in DOMAIN fs' /\ fs'[f] = fs[f]
                   /\ DOMAIN fs' \subseteq DOMAIN fs \cup {Stored(FilenameOf(idx))}
                   /\ \A f \in DOMAIN fs' \ DOMAIN fs :
                         IsWrittenPartOf(fs'[f], Stored(HeadingOnly(RecordOf(idx).title)))
          /\ status'[idx] = "FAILED" => pc = "write"]_vars

\* C13's case: a target whose page has no content container and whose
\* title ends in a surrogate without its partner was saved, and its file
\* holds the heading alone, with U+FFFD for the surrogate
C13_Witness ==
    \E n \in DOMAIN status :
        /\ status[n] = "CONVERTED_AND_SAVED"
        /\ RecordOf(n).contentHtml = <<>>
        /\ RecordOf(n).title = <<"a", "U+D800">>
        /\ <<"0", "0", "0", "0", "0", "0", "0", "0", "_", "a", "U+FFFD", ".", "m", "d">>
              \in DOMAIN fs
        /\ fs[<<"0", "0", "0", "0", "0", "0", "0", "0", "_", "a", "U+FFFD", ".", "m", "d">>]
              = <<"#", " ", "a", "U+FFFD", "\n", "\n">>

\* the text t holds, from position p on, four digits, the year marker, ml
\* digits, the month marker, dl digits and the day marker
PhraseAt(t, p, ml, dl) ==
    /\ p + 6 + ml + dl <= Len(t)
    /\ \A k \in p..(p + 3) : t[k] \in {"0", "1", "2", "3", "4", "5", "6", "7", "8", "9"}
    /\ t[p + 4] = "nen"
    /\ \A k \in (p + 5)..(p + 4 + ml) :
          t[k] \in {"0", "1", "2", "3", "4", "5", "6", "7", "8", "9"}
    /\ t[p + 5 + ml] = "gatsu"
    /\ \A k \in (p + 6 + ml)..(p + 5 + ml + dl) :
          t[k] \in {"0", "1", "2", "3", "4", "5", "6", "7", "8", "9"}
    /\ t[p + 6 + ml + dl] = "nichi"

\* the positions of t at which a year-month-day phrase starts
PhraseStarts(t) ==
    {p \in DOMAIN t : \E ml, dl \in {1, 2} : PhraseAt(t, p, ml, dl)}

ZeroPadded(s) == IF Len(s) = 1 THEN <<"0", s[1]>> ELSE s

\* year, month and day of the first phrase of t, the last two padded to two
\* digits; eight zeros when t holds no phrase
StampOf(t) ==
    LET starts == PhraseStarts(t)
    IN
    IF starts = {} THEN <<"0", "0", "0", "0", "0", "0", "0", "0">>
    ELSE LET p == CHOOSE q \in starts : \A r \in starts : q <= r
             ml == CHOOSE a \in {1, 2} : \E b \in {1, 2} : PhraseAt(t, p, a, b)
             dl == CHOOSE b \in {1, 2} : PhraseAt(t, p, ml, b)
         IN [k \in 1..4 |-> t[p + k - 1]]
              \o ZeroPadded([k \in 1..ml |-> t[p + 4 + k]])
              \o ZeroPadded([k \in 1..dl |-> t[p + 5 + ml + k]])

\* C14: the dateStamp of every extracted record is eight ASCII digits: eight
\* zeros when the page text holds no year-month-day phrase, and otherwise
\* the year of the first phrase followed by its month and its day, each
\* padded with a zero to two digits.
C14_DateStamp ==
    pc \in {"exists", "convert", "write"} =>
        /\ Len(data.dateStr) = 8
        /\ \A k \in 1..8 :
              data.dateStr[k] \in {"0", "1", "2", "3", "4", "5", "6", "7", "8", "9"}
        /\ data.dateStr = StampOf(CurrentPage.body)

\* C14's case: the record of a page whose text holds two phrases, the first
\* one right after a digit, with a month of two digits and a day of one
C14_Witness ==
    /\ pc = "write"
    /\ CurrentPage.body =
          <<"1", "0", "2", "3", "nen", "1", "2", "gatsu", "3", "nichi",
            "1", "9", "9", "9", "nen", "1", "gatsu", "1", "nichi">>
    /\ data.dateStr = <<"1", "0", "2", "3", "1", "2", "0", "3">>

\* s is t with "_" in the place of each of \ / : * ? " < > | and every
\* other character as it is
IsSanitized(t, s) ==
    /\ Len(s) = Len(t)
    /\ \A k \in DOMAIN t :
          s[k] = IF t[k] \in {"\\", "/", ":", "*", "?", "\"", "<", ">", "|"}
                 THEN "_"
                 ELSE t[k]

\* f is "{d}_{s}.md" with s the sanitized form of t
IsFilenameOf(f, d, t) ==
    /\ Len(f) = Len(d) + 1 + Len(t) + 3
    /\ [k \in 1..Len(d) |-> f[k]] = d
    /\ f[Len(d) + 1] = "_"
    /\ IsSanitized(t, [k \in 1..Len(t) |-> f[Len(d) + 1 + k]])
    /\ [k \in 1..3 |-> f[Len(d) + 1 + Len(t) + k]] = <<".", "m", "d">>

\* C15: the filename of a record is "{dateStamp}_{sanitizedTitle}.md", the
\* sanitized title being the title with "_" at the place of each of
\* \ / : * ? " < > | and nothing else changed, so that it depends on title
\* and dateStamp alone; every file a run has written bears the name of its
\* target's record (in UTF-8, as the directory holds it); and the
\* pre-fetch check sanitizes the hint title the same way: a discovered
\* target taken up by the loop is skipped by title exactly when a file of
\* the snapshot ends in "_{sanitized hint title}.md".
C15_FilenameDerivation ==
    [](/\ pc \in {"convert", "write"} =>
             IsFilenameOf(filename, data.dateStr, data.title)
       /\ \A n \in DOMAIN status :
             /\ status[n] = "CONVERTED_AND_SAVED" =>
                   LET rec == RecordOf(n)
                   IN \E f \in DOMAIN fs : IsFilenameOf(f, rec.dateStr, Stored(rec.title))
             /\ (status[n] # "PENDING" /\ articles[n].title # UrlTarget) =>
                   (status[n] = "SKIPPED_BY_TITLE" <=>
                       \E f \in existingFiles :
                           \E k \in 0..Len(f) :
                               /\ Len(f) = k + 1 + Len(articles[n].title) + 3
                               /\ IsFilenameOf(f, [j \in 1..k |-> f[j]], articles[n].title)))

\* C15's case: a second run skipped by title a target whose hint title is
\* two different forbidden characters, on the file the first run wrote for
\* that title
C15_Witness ==
    /\ run = 2
    /\ prevStatus = <<"CONVERTED_AND_SAVED">>
    /\ Len(status) = 1
    /\ status[1] = "SKIPPED_BY_TITLE"
    /\ articles[1].title = <<"\\", "?">>
    /\ <<"0", "0", "0", "0", "0", "0", "0", "0", "_", "_", "_", ".", "m", "d">> \in existingFiles

\* the "load more" control is in the listing now
ControlPresent == timeline[tick].button

\* the control is there at every time of the listing's course
NeverGone == \A k \in DOMAIN timeline : timeline[k].button

\* the positions of main() in the pagination loop
Crawl == {"find", "click", "settle"}

\* C16: an iteration that finds the control clicks it, then waits the
\* settle interval, then looks again; an iteration that finds none ends
\* the loop, and the link scan starts only from there, with the anchors
\* the listing shows then; the loop has come as far as it has only by
\* finding the control every time before, and each settle interval moves
\* the listing on, so the loop ends at the first time the control is gone;
\* and when the control is never gone the run stays in the loop: no scan,
\* no working sequence, no target taken up.
C16_PaginationLoop ==
    [][/\ (pc = "find" /\ ControlPresent) => pc' \in {"click", "aborted"} /\ hasMore'
       /\ (pc = "find" /\ ~ControlPresent) => pc' \in {"scan", "aborted"}
       /\ pc = "click" => pc' \in {"settle", "aborted"} /\ tick' = tick
       /\ pc = "settle" =>
             /\ pc' = "find" /\ hasMore'
             /\ tick < Len(timeline) => tick' = tick + 1
       /\ pc' \in Crawl => \A k \in 1..(tick' - 1) : timeline[k].button
       /\ pc' = "scan" =>
             /\ pc \in {"find", "scan"}
             /\ ~timeline[tick'].button
             /\ \A k \in 1..(tick' - 1) : timeline[k].button
             /\ visible' = timeline[tick'].visible
             /\ ~hasMore'
       /\ (NeverGone /\ listingVisited') =>
             /\ pc' \in Crawl \cup {"aborted"}
             /\ status' = <<>>
             /\ articles' = <<>>
             /\ visited' = {}]_vars

\* C16's case: the control of a listing of two anchors is never gone, and
\* it has been clicked again after the listing's course was over
C16_Witness ==
    /\ NeverGone
    /\ pc = "settle"
    /\ Len(timeline) >= 2
    /\ tick = Len(timeline)
    /\ Len(anchors) >= 2

\* C17: the wait for the article container always leads on to the
\* extraction, whether the container appeared or the wait timed out, and
\* changes neither the target's state nor the directory; from there the
\* target's end depends on its page and on the directory alone: the record
\* is the one its page yields, it is skipped by filename exactly when that
\* record's filename is in the directory, it is saved with that record's
\* file, and it ends in FAILED only when the extraction, the conversion or
\* the write raises.
C17_TimeoutProceeds ==
    [][/\ pc = "wait" =>
             /\ pc' = "evaluate"
             /\ timedOut' = ~CurrentPage.article
             /\ status' = status /\ idx' = idx /\ fs' = fs
       /\ (pc = "evaluate" /\ CurrentPage.evalOk) =>
             /\ pc' = "exists"
             /\ data' = RecordOf(idx)
             /\ status'[idx] = "EXTRACTED"
       /\ pc = "exists" =>
             IF Stored(FilenameOf(idx)) \in DOMAIN fs
             THEN status'[idx] = "SKIPPED_BY_FILENAME" /\ fs' = fs
             ELSE pc' = "convert" /\ status' = status
       /\ (pc \in InTry /\ status'[idx] = "CONVERTED_AND_SAVED") =>
             /\ pc = "write"
             /\ fs'[Stored(FilenameOf(idx))] =
                   Stored(FileContent(RecordOf(idx).title,
                                      Turndown(RecordOf(idx).contentHtml)))
       /\ (pc \in {"wait", "evaluate", "exists", "convert", "write"}
              /\ status'[idx] = "FAILED") =>
             \/ pc = "evaluate" /\ ~CurrentPage.evalOk
             \/ pc = "convert" /\ TurndownThrows(data.contentHtml)
             \/ pc = "write" /\ written' = written]_vars

\* C17's case: a target whose page never shows an article container was
\* saved by one run and, navigated to again, skipped by filename by the next
C17_Witness ==
    /\ run = 2
    /\ \E n \in DOMAIN status \cap DOMAIN prevStatus :
          /\ ~PageAt(articles[n].url).article
          /\ prevStatus[n] = "CONVERTED_AND_SAVED"
          /\ n \in visited
          /\ status[n] = "SKIPPED_BY_FILENAME"

\* the snapshot holds a file that is not the file of target n's own record
\* and whose name ends in "_{sanitized hint title}.md"
BlockedByOther(n) ==
    /\ articles[n].title # UrlTarget
    /\ \E f \in existingFiles :
          /\ HasTitleSuffix(f, articles[n].title)
          /\ ~IsFilenameOf(f, RecordOf(n).dateStr, RecordOf(n).title)

\* C18: a discovered target for which the snapshot holds another article's
\* file with a name ending in "_{sanitized hint title}.md" is, once taken
\* up, skipped by title without being navigated to; and as no run removes
\* a file, a target skipped by title in one run is skipped by title, not
\* navigated to and not saved in the run after it.
C18_FalsePositiveSkip ==
    [](\A n \in DOMAIN status :
           /\ (status[n] # "PENDING" /\ BlockedByOther(n)) =>
                 status[n] = "SKIPPED_BY_TITLE" /\ n \notin visited
           /\ (run > 1 /\ n \in DOMAIN prevStatus /\ prevStatus[n] = "SKIPPED_BY_TITLE") =>
                 status[n] \in {"PENDING", "SKIPPED_BY_TITLE"} /\ n \notin visited)

\* C18's case: at the end of a second run two discovered articles that
\* render and have no file of their own have been skipped by title in both
\* runs, one on a file of the same title with another date, one on a file of
\* a longer title that ends in its hint title after an underscore
C18_Witness ==
    /\ run = 2
    /\ pc = "done"
    /\ \E m, n \in DOMAIN status \cap DOMAIN prevStatus :
          /\ \A k \in {m, n} :
                /\ prevStatus[k] = "SKIPPED_BY_TITLE"
                /\ status[k] = "SKIPPED_BY_TITLE"
                /\ PageAt(articles[k].url).nav
                /\ PageAt(articles[k].url).evalOk
                /\ \A f \in DOMAIN fs :
                      ~IsFilenameOf(f, RecordOf(k).dateStr, RecordOf(k).title)
          /\ \E f \in DOMAIN fs :
                /\ HasTitleSuffix(f, articles[m].title)
                /\ Len(f) = 8 + 1 + Len(articles[m].title) + 3
          /\ \A f \in DOMAIN fs :
                HasTitleSuffix(f, articles[n].title) =>
                    Len(f) > 8 + 1 + Len(articles[n].title) + 3

\* the positions of main() before the per-target loop
Setup == {"parse", "resolve", "find", "click", "settle", "scan", "readdir"}

\* C19: a step before the per-target loop (the launch, the listing
\* navigation, the pagination and the link scan, the directory listing)
\* either goes on or leaves main() by an error; when it leaves main() no
\* target has left PENDING, none was navigated to, the run has written
\* nothing and the directory is as it was (in a first run: as before the
\* program started); main() is left by an error from such a step or, past
\* the last target, from the closing of the browser, never from inside
\* the loop; a run that was left by an error does not go on, the next
\* step from there is a new start of the program; the normal end is
\* reached only from the loop; and the loop is entered only by a directory
\* listing that succeeded.  The start of the script, ahead of main(), goes
\* on to main() or, only when the output directory is not there and cannot
\* be made, ends the process with the directory and every target untouched.
C19_SetupFailureAborts ==
    [][/\ (pc' = "aborted" /\ pc # "aborted") =>
             \/ /\ pc \in Setup
                /\ fs' = fs
                /\ written' = <<>>
                /\ visited' = {}
                /\ \A n \in DOMAIN status' : status'[n] = "PENDING"
                /\ run' = 1 => \A f \in DOMAIN fs' : fs'[f] = <<"o", "l", "d">>
             \/ /\ pc = "loop"
                /\ idx > Len(articles)
                /\ fs' = fs
       /\ pc = "aborted" => pc' = "aborted" \/ (pc' = "start" /\ run' = run + 1)
       /\ pc = "start" =>
             /\ pc' \in {"start", "parse", "crashed"}
             /\ fs' = fs
             /\ status' = <<>>
             /\ pc' = "crashed" => ~dirExists
       /\ pc' = "crashed" => pc \in {"start", "crashed"}
       /\ (pc' = "done" /\ pc # "done") => pc = "loop"
       /\ (pc' = "loop" /\ pc \in Setup) =>
             /\ pc = "readdir"
             /\ existingFiles' = DOMAIN fs
             /\ DOMAIN status' = DOMAIN articles']_vars

\* C19's case: the directory listing raised after the listing page had
\* yielded two or more targets, in a directory that holds files
\* (witnessed once main() is left)
C19_Witness ==
    /\ pc = "aborted"
    /\ listingVisited
    /\ Len(articles) >= 2
    /\ \A n \in DOMAIN status : status[n] = "PENDING"
    /\ DOMAIN fs # {}

====
